---- MODULE Spec2Model ----
(***************************************************************************)
(* Model of the version-bump engine of release-action:                     *)
(* getNextVersionAndReleaseNotes (src/library/bumpVersion.ts, exercised by *)
(* src/test/bumpVersion.test.ts) and of the paginated commit fetch that    *)
(* feeds it.                                                               *)
(*                                                                         *)
(* Text is modelled as token sequences.  A token is a record               *)
(*   [k : kind, n : number, s : sequence of strings]                       *)
(* so that stripping, appending and slicing are real operations.           *)
(***************************************************************************)
EXTENDS Integers, Sequences, FiniteSets, TLC

(* ------------------------------------------------------------------ *)
(* Bounds of the model                                                *)
(* ------------------------------------------------------------------ *)

\* longest run of commits newer than the cutoff that is enumerated
MaxCommits == 2

\* page size of the history listing (per_page; 100 in production, scaled down)
PerPage == 2

(* ------------------------------------------------------------------ *)
(* Tokens and lines                                                   *)
(* ------------------------------------------------------------------ *)

W(str) == [k |-> "w", n |-> 0, s |-> <<str>>]
Closes(num) == [k |-> "closes", n |-> num, s |-> <<>>]
Fixes(num) == [k |-> "fixes", n |-> num, s |-> <<>>]
Paren(num) == [k |-> "paren", n |-> num, s |-> <<>>]
NL == [k |-> "nl", n |-> 0, s |-> <<>>]
Bold(scope) == [k |-> "bold", n |-> 0, s |-> <<scope>>]
IssueTok(num) == [k |-> "issue", n |-> num, s |-> <<>>]

\* one raw line of a commit message:
\*   pre   - word in front of the type ("[publish]", "WIP") or ""
\*   type  - the word in front of the colon, "BREAKING", or "" (free text)
\*   scope - text between parentheses after the type, or ""
\*   toks  - the rest of the line
Line(pre, type, scope, toks) == [pre |-> pre, type |-> type, scope |-> scope, toks |-> toks]

IsRef(t) == t.k \in {"closes", "fixes", "paren"}

RECURSIVE SelectToks(_, _)
\* the tokens of toks that are (keep = TRUE) / are not (keep = FALSE) issue references
SelectToks(toks, keep) ==
    IF toks = <<>> THEN <<>>
    ELSE LET t == Head(toks)
         IN (IF IsRef(t) = keep THEN <<t>> ELSE <<>>) \o SelectToks(Tail(toks), keep)

\* variant: the references stay in the text
MutStripRefs(toks) == toks

\* the visible text of a line: issue references removed
StripRefs(toks) == SelectToks(toks, FALSE)

RECURSIVE RefNumbers(_)
\* the issue numbers referenced on a line, in order of occurrence
RefNumbers(toks) ==
    IF toks = <<>> THEN <<>>
    ELSE (IF IsRef(Head(toks)) THEN <<Head(toks).n>> ELSE <<>>) \o RefNumbers(Tail(toks))

SeqContains(seq, x) == \E i \in 1..Len(seq) : seq[i] = x

RECURSIVE DedupInto(_, _)
DedupInto(acc, seq) ==
    IF seq = <<>> THEN acc
    ELSE DedupInto(IF SeqContains(acc, Head(seq)) THEN acc ELSE Append(acc, Head(seq)), Tail(seq))

\* seq without repeated elements, first occurrences kept in order
Dedup(seq) == DedupInto(<<>>, seq)

(* ------------------------------------------------------------------ *)
(* Line-by-line parser of one commit message                          *)
(* ------------------------------------------------------------------ *)

\* the types that start an entry
BumpTypes == {"feat", "fix"}

\* severity of a type: feat -> minor, fix -> patch, anything else -> none
TypeSeverity(type) ==
    IF type = "feat" THEN "minor" ELSE IF type = "fix" THEN "patch" ELSE "none"

\* tagged-line classifier.  A word in front of the type ("[publish]", "WIP")
\* does not prevent recognition.
LineKind(line) ==
    IF line.type = "BREAKING" THEN "breaking"
    ELSE IF line.type = "" THEN "cont"
    ELSE IF TypeSeverity(line.type) # "none" THEN "start"
    ELSE "block"

NoEntry == [severity |-> "none", scope |-> "", text |-> <<>>, issues |-> <<>>]

NewEntry(line) ==
    [severity |-> TypeSeverity(line.type), scope |-> line.scope,
     text |-> <<StripRefs(line.toks)>>, issues |-> RefNumbers(line.toks)]

\* a continuation line joins the open entry; its references join the entry's
AppendLine(e, toks) ==
    [e EXCEPT !.text = Append(@, StripRefs(toks)), !.issues = @ \o RefNumbers(toks)]

ParserInit == [open |-> FALSE, cur |-> NoEntry, done |-> <<>>]

Flush(st) == IF st.open THEN Append(st.done, st.cur) ELSE st.done

\* variant: the BREAKING text joins the entry but the severity stays
MutBreakingStep(st, line) ==
    IF ~st.open THEN st
    ELSE [st EXCEPT !.cur = IF line.toks = <<>> THEN @ ELSE AppendLine(@, line.toks)]

\* variant: BREAKING escalates every entry of the message read so far
MutBreakingStepAll(st, line) ==
    IF ~st.open THEN st
    ELSE [open |-> TRUE,
          cur |-> [(IF line.toks = <<>> THEN st.cur ELSE AppendLine(st.cur, line.toks))
                      EXCEPT !.severity = "major"],
          done |-> [i \in 1..Len(st.done) |-> [st.done[i] EXCEPT !.severity = "major"]]]

\* BREAKING escalates the open entry and its text joins the description
BreakingStep(st, line) ==
    IF ~st.open THEN st
    ELSE [st EXCEPT !.cur = [(IF line.toks = <<>> THEN @ ELSE AppendLine(@, line.toks))
                                EXCEPT !.severity = "major"]]

\* variant: a line without prefix opens a patch entry when none is open
MutContStep(st, line) ==
    IF line.toks = <<>> THEN st
    ELSE IF st.open THEN [st EXCEPT !.cur = AppendLine(@, line.toks)]
    ELSE [open |-> TRUE, done |-> st.done,
          cur |-> [NoEntry EXCEPT !.severity = "patch", !.text = <<StripRefs(line.toks)>>]]

\* a line without prefix: joins the open entry, is dropped when none is open;
\* blank lines are dropped
ContStep(st, line) ==
    IF st.open /\ line.toks # <<>> THEN [st EXCEPT !.cur = AppendLine(@, line.toks)] ELSE st

ParserStep(st, line) ==
    CASE LineKind(line) = "start" -> [open |-> TRUE, cur |-> NewEntry(line), done |-> Flush(st)]
      [] LineKind(line) = "block" -> [open |-> FALSE, cur |-> NoEntry, done |-> Flush(st)]
      [] LineKind(line) = "breaking" -> BreakingStep(st, line)
      [] OTHER -> ContStep(st, line)

RECURSIVE ParseFrom(_, _)
ParseFrom(st, lines) ==
    IF lines = <<>> THEN Flush(st) ELSE ParseFrom(ParserStep(st, Head(lines)), Tail(lines))

\* the entries of one commit message, in extraction order
ParseMessage(lines) == ParseFrom(ParserInit, lines)

(* ------------------------------------------------------------------ *)
(* Rendering of one entry's description                               *)
(* ------------------------------------------------------------------ *)

RepoUrl == "https://github.com/user/repository"

\* length of the short sha shown in a commit link
ShortShaLen == 7

Min(a, b) == IF a < b THEN a ELSE b

ShortSha(sha) == SubSeq(sha, 1, Min(ShortShaLen, Len(sha)))

LinkToks(sha) ==
    << [k |-> "sha7", n |-> 0, s |-> ShortSha(sha)],
       [k |-> "url", n |-> 0, s |-> <<RepoUrl, "/commit/">> \o sha] >>

RECURSIVE JoinLines(_)
JoinLines(text) ==
    IF text = <<>> THEN <<>>
    ELSE IF Len(text) = 1 THEN text[1]
    ELSE text[1] \o <<NL>> \o JoinLines(Tail(text))

RECURSIVE IssueToks(_)
IssueToks(nums) == IF nums = <<>> THEN <<>> ELSE <<IssueTok(Head(nums))>> \o IssueToks(Tail(nums))

\* variant: only the first entry of a commit gets the link
MutHasLink(e, sha, first) == sha # <<>> /\ first

\* whether the entry's description gets the commit link: the commit has an
\* identifier and the entry references no issue (first: the entry is the
\* commit's first one, which plays no part)
HasLink(e, sha, first) == sha # <<>> /\ e.issues = <<>>

RenderEntry(e, sha, first) ==
    (IF e.scope = "" THEN <<>> ELSE <<Bold(e.scope)>>)
    \o JoinLines(e.text)
    \o (IF HasLink(e, sha, first) THEN LinkToks(sha) ELSE <<>>)
    \o IssueToks(Dedup(e.issues))

\* the rendered entries of one commit: <<[rule, description, sha]>>
RenderCommit(commit) ==
    LET es == ParseMessage(commit.message)
    IN [i \in 1..Len(es) |->
          [rule |-> es[i].severity, description |-> RenderEntry(es[i], commit.sha, i = 1)]]

(* ------------------------------------------------------------------ *)
(* Versions: decimal text <-> numbers, semver increment               *)
(* ------------------------------------------------------------------ *)

RECURSIVE ParseNumFrom(_, _)
ParseNumFrom(acc, ds) == IF ds = <<>> THEN acc ELSE ParseNumFrom(acc * 10 + Head(ds), Tail(ds))

\* decimal digits -> number
ParseNum(ds) == ParseNumFrom(0, ds)

RECURSIVE FormatNum(_)
\* number -> decimal digits
FormatNum(num) == IF num < 10 THEN <<num>> ELSE FormatNum(num \div 10) \o <<num % 10>>

\* "X.Y.Z" as three digit strings -> [major, minor, patch]
ParseVersion(parts) ==
    [major |-> ParseNum(parts[1]), minor |-> ParseNum(parts[2]), patch |-> ParseNum(parts[3])]

FormatVersion(v) == <<FormatNum(v.major), FormatNum(v.minor), FormatNum(v.patch)>>

\* variant: the lower components are not reset
MutInc(v, release) ==
    CASE release = "major" -> [major |-> v.major + 1, minor |-> v.minor, patch |-> v.patch]
      [] release = "minor" -> [major |-> v.major, minor |-> v.minor + 1, patch |-> v.patch]
      [] OTHER -> [major |-> v.major, minor |-> v.minor, patch |-> v.patch + 1]

\* semver increment
Inc(v, release) ==
    CASE release = "major" -> [major |-> v.major + 1, minor |-> 0, patch |-> 0]
      [] release = "minor" -> [major |-> v.major, minor |-> v.minor + 1, patch |-> 0]
      [] OTHER -> [major |-> v.major, minor |-> v.minor, patch |-> v.patch + 1]

\* the version a tag name carries: the tag prefix is cut off
TagVersion(tag) == ParseVersion(tag.name.parts)

\* nextVersion when there is none
Undefined == <<>>

(* ------------------------------------------------------------------ *)
(* Bump computation                                                   *)
(* ------------------------------------------------------------------ *)

Priority(sev) ==
    CASE sev = "major" -> 3 [] sev = "minor" -> 2 [] sev = "patch" -> 1 [] OTHER -> 0

MaxSeverity(a, b) == IF Priority(b) > Priority(a) THEN b ELSE a

\* variant: only major is lowered on an unstable version
MutDowngrade(bump, stable) == IF ~stable /\ bump = "major" THEN "minor" ELSE bump

\* on an unstable version (major 0) the bump is one level lower:
\* major -> minor, minor -> patch; patch stays patch
Downgrade(bump, stable) ==
    IF stable THEN bump
    ELSE CASE bump = "major" -> "minor" [] bump = "minor" -> "patch" [] OTHER -> bump

IsStable(v) == v.major >= 1

(* ------------------------------------------------------------------ *)
(* Inputs: commit messages, identifiers, tags, manifest versions      *)
(* ------------------------------------------------------------------ *)

Blank == Line("", "", "", <<>>)

MsgFixFeatBreaking ==
    << Line("", "fix", "", <<W("fix serious issue")>>),
       Line("", "feat", "", <<W("add new feature")>>),
       Line("", "BREAKING", "", <<W("config was removed")>>) >>

MsgBreakingThenFeat ==
    << Line("", "feat", "", <<W("just adding feature")>>),
       Line("", "BREAKING", "", <<W("we broke anything")>>),
       Line("", "feat", "", <<W("but here we didn't break anything")>>) >>

MsgNoPrefix ==
    << Line("", "", "", <<W("fix serious issue")>>),
       Line("", "", "", <<W("feature something new")>>) >>

MsgPrefixed ==
    << Line("[publish]", "feat", "", <<W("just adding feature")>>) >>

MsgWip ==
    << Line("WIP", "fix", "", <<W("first fixes")>>) >>

MsgNote ==
    << Line("", "fix", "", <<W("some things")>>),
       Line("", "feat", "button", <<W("we're insane!")>>),
       Line("", "Note", "", <<W("yes, we are!")>>),
       Blank >>

MsgCloses ==
    << Blank,
       Line("", "fix", "", <<W("This rare bug was finally fixed"), Closes(33343)>>),
       Blank,
       Line("", "", "", <<W("Some background for bug goes here...")>>),
       Line("", "feat", "", <<W("Add new feature within commit")>>),
       Line("", "", "", <<W("Description")>>) >>

MsgFixesTest ==
    << Blank,
       Line("", "fix", "", <<W("This rare bug was finally fixed"), Fixes(33343)>>),
       Blank,
       Line("", "", "", <<Fixes(453)>>),
       Line("", "", "", <<W("Some background for bug goes here...")>>),
       Line("", "test", "", <<W("Fix tests")>>),
       Line("", "", "", <<W("Tests were hard to fix")>>) >>

MsgContributed ==
    << Line("", "fix", "", <<W("something was contributed"), Paren(123)>>) >>

MsgRepeatedRefs ==
    << Line("", "fix", "", <<W("handle timeout"), Closes(5), W("properly")>>),
       Line("", "", "", <<W("see also"), Fixes(7), Fixes(5)>>),
       Line("", "BREAKING", "", <<W("timeout option renamed"), Paren(7)>>) >>

MsgBreakingAlone ==
    << Line("", "BREAKING", "", <<W("dropped old api")>>) >>

MsgChore ==
    << Line("", "chore", "", <<W("update deps")>>),
       Line("", "", "", <<W("nothing to see")>>) >>

Messages ==
    { MsgFixFeatBreaking, MsgBreakingThenFeat, MsgNoPrefix, MsgPrefixed, MsgWip, MsgNote,
      MsgCloses, MsgFixesTest, MsgContributed, MsgRepeatedRefs, MsgBreakingAlone, MsgChore }

\* the messages that are also enumerated on a commit with an identifier
LinkedMessages ==
    { MsgFixFeatBreaking, MsgNoPrefix, MsgPrefixed, MsgCloses, MsgContributed, MsgRepeatedRefs }

NoSha == <<>>
Sha1 == <<"7", "f", "8", "4", "6", "8", "2", "8", "6">>
TagSha == <<"1", "2", "3">>

Commit(message, sha) == [message |-> message, sha |-> sha]

\* commits that may lie above the cutoff
Commits == { Commit(m, NoSha) : m \in Messages } \cup { Commit(m, Sha1) : m \in LinkedMessages }

TagCommit == Commit(<<Line("", "feat", "", <<W("should not be here")>>)>>, TagSha)
OldCommit == Commit(<<Line("", "feat", "", <<W("something else")>>)>>, NoSha)

SeqsUpTo(S, len) == UNION { [1..k -> S] : k \in 0..len }

\* histories, newest first: commits above the cutoff, then possibly the tagged
\* commit and an older one
Histories ==
    { newer \o tail : newer \in SeqsUpTo(Commits, MaxCommits),
                      tail \in { <<>>, <<TagCommit>>, <<TagCommit, OldCommit>> } }

V(a, b, c) == <<a, b, c>>

TagVersions ==
    { V(<<0>>, <<0>>, <<9>>), V(<<0>>, <<9>>, <<1, 0>>), V(<<1>>, <<0>>, <<9>>), V(<<9>>, <<9>>, <<9>>) }

ManifestVersions == { V(<<0>>, <<0>>, <<0>>), V(<<0>>, <<0>>, <<9>>) }

Tag(parts) == [name |-> [prefix |-> "v", parts |-> parts], sha |-> TagSha]

(* ------------------------------------------------------------------ *)
(* State                                                              *)
(* ------------------------------------------------------------------ *)

VARIABLES
    tags,                \* what listTags returns
    manifest,            \* version in package.json
    history,             \* the repository's commits, newest first
    pc,                  \* "idle", "tags", "fetch", "await", "classify", "done", "rendered"
    page,                \* next page of listCommits to request
    requested,           \* pages requested so far, in order
    commits,             \* commits collected above the cutoff
    found,               \* the tagged commit was met
    idx,                 \* next collected commit to classify
    commitsByRule,       \* [major, minor, patch : descriptions (empty = absent), rawOverride]
    origin,              \* for each bucket entry, its commit (index in history) and entry number
    rawBump,             \* highest severity met so far
    bumpType,
    nextVersion,         \* <<>> = undefined, else three digit strings
    usingInExistingEnv,
    received,            \* number of pages whose response has arrived
    changelog,           \* what generateChangelog returned, <<>> before
    options,             \* the command line and configuration of the run
    cli                  \* the command's own state

vars == << tags, manifest, history, pc, page, requested, commits, found, idx,
           commitsByRule, origin, rawBump, bumpType, nextVersion, usingInExistingEnv,
           received, changelog, options, cli >>

\* what the library's steps leave alone
outside == << options, cli >>

\* the library called directly, as the tests do: no command is running
LibraryOptions ==
    [bumpAction |-> TRUE, forceUseVersion |-> FALSE, autoUpdate |-> FALSE,
     commitPublishPrefix |-> FALSE, prefixed |-> TRUE, githubPostaction |-> "release"]

LibraryCall ==
    [step |-> "lib", bump |-> TRUE, postaction |-> "release", doPublish |-> TRUE,
     mainReturned |-> FALSE, created |-> "none", exitCode |-> 0, failedAt |-> ""]

NoBuckets == [major |-> <<>>, minor |-> <<>>, patch |-> <<>>, rawOverride |-> ""]
NoOrigin == [major |-> <<>>, minor |-> <<>>, patch |-> <<>>]

Init ==
    /\ \/ tags = <<>> /\ manifest \in ManifestVersions
       \/ tags \in { <<Tag(v)>> : v \in TagVersions } /\ manifest = V(<<0>>, <<0>>, <<0>>)
    /\ history \in Histories
    /\ pc = "tags"
    /\ page = 1
    /\ requested = <<>>
    /\ commits = <<>>
    /\ found = FALSE
    /\ idx = 1
    /\ commitsByRule = NoBuckets
    /\ origin = NoOrigin
    /\ rawBump = "none"
    /\ bumpType = "none"
    /\ nextVersion = Undefined
    /\ usingInExistingEnv = FALSE
    /\ received = 0
    /\ changelog = <<>>
    /\ options = LibraryOptions
    /\ cli = LibraryCall

(* ------------------------------------------------------------------ *)
(* getNextVersionAndReleaseNotes, step by step                        *)
(* ------------------------------------------------------------------ *)

\* the note of the first release (the emoji is written as its shortcode)
InitialReleaseNote == ":tada: Initial release"

\* variant: the manifest version is returned as it is
MutInitialVersion(parts) == parts

\* the version of the first release: the manifest's, patch-incremented
InitialVersion(parts) == FormatVersion(Inc(ParseVersion(parts), "patch"))

\* variant: a patch bump gives no version either
MutNextVersionFor(current, bump) ==
    IF bump = "none" \/ bump = "patch" THEN Undefined ELSE FormatVersion(Inc(current, bump))

\* the next version for a bump; none gives no version
NextVersionFor(current, bump) ==
    IF bump = "none" THEN Undefined ELSE FormatVersion(Inc(current, bump))

\* no tag at all: the initial release, nothing is fetched or classified
InitialRelease ==
    /\ pc = "tags"
    /\ tags = <<>>
    /\ bumpType' = "none"
    /\ commitsByRule' = [NoBuckets EXCEPT !.rawOverride = InitialReleaseNote]
    /\ nextVersion' = InitialVersion(manifest)
    /\ pc' = "done"
    /\ UNCHANGED << outside, received, changelog, tags, manifest, history, page, requested, commits, found, idx,
                    origin, rawBump, usingInExistingEnv >>

\* a tag exists: its commit is the cutoff
ResolveTag ==
    /\ pc = "tags"
    /\ tags # <<>>
    /\ pc' = "fetch"
    /\ UNCHANGED << outside, received, changelog, tags, manifest, history, page, requested, commits, found, idx,
                    commitsByRule, origin, rawBump, bumpType, nextVersion, usingInExistingEnv >>

\* listCommits({ page, per_page })
PageOf(all, p) == SubSeq(all, (p - 1) * PerPage + 1, Min(p * PerPage, Len(all)))

\* index of the first item whose sha is the cutoff, 0 when there is none
CutIndex(items, sha) ==
    IF \E i \in 1..Len(items) : items[i].sha = sha
    THEN CHOOSE i \in 1..Len(items) :
            /\ items[i].sha = sha
            /\ \A j \in 1..(i - 1) : items[j].sha # sha
    ELSE 0

\* variant: the tagged commit itself is taken too
MutTakeNewer(items, hit) == IF hit > 0 THEN SubSeq(items, 1, hit) ELSE items

\* the items of a page that lie above the cutoff
TakeNewer(items, hit) == IF hit > 0 THEN SubSeq(items, 1, hit - 1) ELSE items

\* variant: only the first page is ever requested
MutMorePages(items, hit) == FALSE

\* variant: only a short page ends the loop
MutMorePagesIgnoreHit(items, hit) == Len(items) >= PerPage

\* whether another page is requested after this one
MorePages(items, hit) == hit = 0 /\ Len(items) >= PerPage

\* the loop sends the request for the current page and awaits it
RequestPage ==
    /\ pc = "fetch"
    /\ requested' = Append(requested, page)
    /\ pc' = "await"
    /\ UNCHANGED << outside, received, changelog, tags, manifest, history, page, commits, found, idx,
                    commitsByRule, origin, rawBump, bumpType, nextVersion, usingInExistingEnv >>

\* the awaited page arrives: its newer items are taken, the loop goes on or ends
FetchPage ==
    /\ pc = "await"
    /\ LET items == PageOf(history, page)
           hit == CutIndex(items, tags[1].sha)
       IN /\ received' = received + 1
          /\ commits' = commits \o TakeNewer(items, hit)
          /\ found' = (hit > 0)
          /\ IF MorePages(items, hit)
             THEN /\ page' = page + 1
                  /\ pc' = "fetch"
                  /\ UNCHANGED usingInExistingEnv
             ELSE /\ page' = page
                  /\ pc' = "classify"
                  /\ usingInExistingEnv' = (hit = 0)
    /\ UNCHANGED << outside, changelog, tags, manifest, history, requested, idx, commitsByRule, origin,
                    rawBump, bumpType, nextVersion >>

RECURSIVE AddEntries(_, _)
AddEntries(buckets, rendered) ==
    IF rendered = <<>> THEN buckets
    ELSE AddEntries([buckets EXCEPT ![Head(rendered).rule] = Append(@, Head(rendered).description)],
                    Tail(rendered))

RECURSIVE AddOrigins(_, _, _, _)
\* bookkeeping: entry e of commit c went to which bucket
AddOrigins(org, rendered, c, e) ==
    IF rendered = <<>> THEN org
    ELSE AddOrigins([org EXCEPT ![Head(rendered).rule] = Append(@, [c |-> c, e |-> e])],
                    Tail(rendered), c, e + 1)

RECURSIVE MaxOf(_, _)
MaxOf(bump, rendered) ==
    IF rendered = <<>> THEN bump
    ELSE MaxOf(MaxSeverity(bump, Head(rendered).rule), Tail(rendered))

\* one iteration of the loop over the collected commits
ClassifyCommit ==
    /\ pc = "classify"
    /\ idx <= Len(commits)
    /\ LET rendered == RenderCommit(commits[idx])
       IN /\ commitsByRule' = AddEntries(commitsByRule, rendered)
          /\ origin' = AddOrigins(origin, rendered, idx, 1)
          /\ rawBump' = MaxOf(rawBump, rendered)
    /\ idx' = idx + 1
    /\ UNCHANGED << outside, received, changelog, tags, manifest, history, pc, page, requested, commits, found,
                    bumpType, nextVersion, usingInExistingEnv >>

\* after the loop: the bump for the current version and the next version
ComputeBump ==
    /\ pc = "classify"
    /\ idx > Len(commits)
    /\ LET current == TagVersion(tags[1])
           bump == Downgrade(rawBump, IsStable(current))
       IN /\ bumpType' = bump
          /\ nextVersion' = NextVersionFor(current, bump)
    /\ pc' = "done"
    /\ UNCHANGED << outside, received, changelog, tags, manifest, history, page, requested, commits, found, idx,
                    commitsByRule, origin, rawBump, usingInExistingEnv >>

(* ------------------------------------------------------------------ *)
(* generateChangelog                                                  *)
(* ------------------------------------------------------------------ *)

\* the heading of a bucket: its markdown level and its text
Heading(r) ==
    CASE r = "major" -> [k |-> "heading", n |-> 2, s |-> <<"BREAKING CHANGES">>]
      [] r = "minor" -> [k |-> "heading", n |-> 3, s |-> <<"New Features">>]
      [] OTHER -> [k |-> "heading", n |-> 3, s |-> <<"Bug Fixes">>]

\* the list marker "- "
ItemTok == [k |-> "item", n |-> 0, s |-> <<>>]

RECURSIVE RenderItems(_)
\* "- <description>" per entry, one per line, in the bucket's order
RenderItems(descriptions) ==
    IF descriptions = <<>> THEN <<>>
    ELSE <<ItemTok>> \o Head(descriptions)
         \o (IF Len(descriptions) > 1 THEN <<NL>> ELSE <<>>)
         \o RenderItems(Tail(descriptions))

\* heading, empty line, items; nothing for an absent bucket
RenderSection(byRule, r) ==
    IF byRule[r] = <<>> THEN <<>> ELSE <<Heading(r), NL, NL>> \o RenderItems(byRule[r])

\* variant: the sections come in increasing severity
MutSectionOrder == <<"patch", "minor", "major">>

\* the order of the sections
SectionOrder == <<"major", "minor", "patch">>

RECURSIVE JoinSections(_)
JoinSections(sections) ==
    IF sections = <<>> THEN <<>>
    ELSE IF Head(sections) = <<>> THEN JoinSections(Tail(sections))
    ELSE LET rest == JoinSections(Tail(sections))
         IN Head(sections) \o (IF rest = <<>> THEN <<>> ELSE <<NL>> \o rest)

ChangelogOf(byRule) ==
    IF byRule.rawOverride # "" THEN <<W(byRule.rawOverride)>>
    ELSE JoinSections([i \in 1..Len(SectionOrder) |-> RenderSection(byRule, SectionOrder[i])])

\* generateChangelog(versionBumpInfo.commitsByRule, ...)
GenerateChangelog ==
    /\ pc = "done"
    /\ changelog' = ChangelogOf(commitsByRule)
    /\ pc' = "rendered"
    /\ UNCHANGED << outside, received, tags, manifest, history, page, requested, commits, found,
                    idx, commitsByRule, origin, rawBump, bumpType, nextVersion,
                    usingInExistingEnv >>

Next ==
    \/ InitialRelease
    \/ ResolveTag
    \/ RequestPage
    \/ FetchPage
    \/ ClassifyCommit
    \/ ComputeBump
    \/ GenerateChangelog

Spec == Init /\ [][Next]_vars

(* ------------------------------------------------------------------ *)
(* Long histories of short commits, for the paginated fetch           *)
(* ------------------------------------------------------------------ *)

\* longest run of commits above the cutoff in a long history
MaxPagedCommits == 5

ShortCommits == { Commit(MsgWip, NoSha), Commit(MsgPrefixed, Sha1) }

PagedHistories ==
    { newer \o tail : newer \in SeqsUpTo(ShortCommits, MaxPagedCommits),
                      tail \in { <<>>, <<TagCommit>>, <<TagCommit, OldCommit>> } }

InitPaged ==
    /\ \/ tags = <<>>
       \/ tags \in { <<Tag(v)>> : v \in {V(<<0>>, <<0>>, <<1>>), V(<<1>>, <<0>>, <<9>>)} }
    /\ manifest = V(<<0>>, <<0>>, <<0>>)
    /\ history \in PagedHistories
    /\ pc = "tags"
    /\ page = 1
    /\ requested = <<>>
    /\ commits = <<>>
    /\ found = FALSE
    /\ idx = 1
    /\ commitsByRule = NoBuckets
    /\ origin = NoOrigin
    /\ rawBump = "none"
    /\ bumpType = "none"
    /\ nextVersion = Undefined
    /\ usingInExistingEnv = FALSE
    /\ received = 0
    /\ changelog = <<>>
    /\ options = LibraryOptions
    /\ cli = LibraryCall

SpecPaged == InitPaged /\ [][Next]_vars

\* the run is sequential code whose awaited requests are answered: it keeps
\* taking its next step while it has one
SpecPagedFair == InitPaged /\ [][Next]_vars /\ WF_vars(Next)

(* ------------------------------------------------------------------ *)
(* The command: program.action                                        *)
(* ------------------------------------------------------------------ *)

\* the library's variables other than its position
library == << tags, manifest, history, page, requested, commits, found, idx, commitsByRule,
              origin, rawBump, bumpType, nextVersion, usingInExistingEnv, received, changelog >>

\* what the command line and the configuration can say
Options ==
    [bumpAction : BOOLEAN, forceUseVersion : BOOLEAN, autoUpdate : BOOLEAN,
     commitPublishPrefix : BOOLEAN, prefixed : BOOLEAN,
     githubPostaction : {"release", "tag", "none"}]

CliHistories ==
    { <<TagCommit>>,
      <<Commit(MsgChore, NoSha), TagCommit>>,
      <<Commit(MsgPrefixed, Sha1), TagCommit>>,
      <<Commit(MsgWip, NoSha), Commit(MsgBreakingAlone, NoSha), TagCommit, OldCommit>>,
      <<Commit(MsgPrefixed, NoSha), Commit(MsgChore, NoSha), Commit(MsgWip, Sha1)>> }

\* actionsToRun.bumpVersionAndGenerateChangelog after --force-use-version
BumpEnabled(o) == IF o.forceUseVersion THEN FALSE ELSE o.bumpAction

\* config.githubPostaction after --auto-update
PostactionOf(o) == IF o.autoUpdate THEN "tag" ELSE o.githubPostaction

\* doPublish after the check of the triggering commit's message
DoPublishFromPrefix(o) == IF o.commitPublishPrefix THEN o.prefixed ELSE TRUE

\* the classification has returned to the command: versionBumpInfo is defined
VersionBumpInfo == pc = "rendered"

\* versionBumpInfo.latestTagCommitSha, empty when there is no tag
LatestTagCommitSha == IF tags = <<>> THEN NoSha ELSE tags[1].sha

\* variant: a missing next version leaves doPublish as it is
MutDoPublishAfterBump(doPublish, info, next) == doPublish

\* doPublish after "no next bumped version, no publishing"
DoPublishAfterBump(doPublish, info, next) ==
    IF info /\ next = Undefined THEN FALSE ELSE doPublish

\* what the post-action creates
Created(info, doPublish, postaction, sha) ==
    IF info /\ doPublish
    THEN IF postaction = "release" THEN "release"
         ELSE IF postaction = "tag" /\ sha # NoSha THEN "tag"
         ELSE "none"
    ELSE "none"

\* the steps of the command that are inside the try block
Running ==
    {"setup", "prefix", "bump", "inlib", "preset", "nonext", "main", "postaction", "assets",
     "postrun"}

\* the steps that come before anything is created
BeforeCreation == {"setup", "prefix", "bump", "inlib", "preset", "nonext", "main"}

InitCli ==
    /\ \/ tags = <<>> /\ manifest \in ManifestVersions
       \/ tags \in { <<Tag(v)>> : v \in {V(<<0>>, <<0>>, <<9>>), V(<<1>>, <<0>>, <<9>>)} }
          /\ manifest = V(<<0>>, <<0>>, <<0>>)
    /\ history \in CliHistories
    /\ pc = "idle"
    /\ page = 1
    /\ requested = <<>>
    /\ commits = <<>>
    /\ found = FALSE
    /\ idx = 1
    /\ commitsByRule = NoBuckets
    /\ origin = NoOrigin
    /\ rawBump = "none"
    /\ bumpType = "none"
    /\ nextVersion = Undefined
    /\ usingInExistingEnv = FALSE
    /\ received = 0
    /\ changelog = <<>>
    /\ options \in Options
    /\ cli = [step |-> "setup", bump |-> options.bumpAction,
              postaction |-> options.githubPostaction, doPublish |-> TRUE,
              mainReturned |-> FALSE, created |-> "none", exitCode |-> 0, failedAt |-> ""]

\* environment checks, configuration, options
Setup ==
    /\ cli.step = "setup"
    /\ cli' = [cli EXCEPT !.bump = BumpEnabled(options),
                          !.postaction = PostactionOf(options),
                          !.step = "prefix"]
    /\ UNCHANGED << options, pc, library >>

\* let doPublish = true; the triggering commit is read when a prefix is configured
CheckPublishPrefix ==
    /\ cli.step = "prefix"
    /\ cli' = [cli EXCEPT !.doPublish = DoPublishFromPrefix(options), !.step = "bump"]
    /\ UNCHANGED << options, pc, library >>

\* the classification is called when the shared action is on
CallBump ==
    /\ cli.step = "bump"
    /\ IF cli.bump
       THEN /\ pc' = "tags"
            /\ cli' = [cli EXCEPT !.step = "inlib"]
       ELSE /\ pc' = pc
            /\ cli' = [cli EXCEPT !.step = "preset"]
    /\ UNCHANGED << options, library >>

\* the classification and the changelog are back: the version is written
PersistVersion ==
    /\ cli.step = "inlib"
    /\ pc = "rendered"
    /\ cli' = [cli EXCEPT !.step = "preset"]
    /\ UNCHANGED << options, pc, library >>

\* the preset is loaded, beforeSharedActions and the shared actions run
RunSharedActions ==
    /\ cli.step = "preset"
    /\ cli' = [cli EXCEPT !.step = "nonext"]
    /\ UNCHANGED << options, pc, library >>

\* no next version: no publishing
CheckNextVersion ==
    /\ cli.step = "nonext"
    /\ cli' = [cli EXCEPT !.doPublish = DoPublishAfterBump(cli.doPublish, VersionBumpInfo, nextVersion),
                          !.step = "main"]
    /\ UNCHANGED << options, pc, library >>

\* presetToUse.main(...) returns
RunMain ==
    /\ cli.step = "main"
    /\ cli' = [cli EXCEPT !.mainReturned = TRUE, !.step = "postaction"]
    /\ UNCHANGED << options, pc, library >>

\* createRelease or createRef
PostAction ==
    /\ cli.step = "postaction"
    /\ LET made == Created(VersionBumpInfo, cli.doPublish, cli.postaction, LatestTagCommitSha)
       IN cli' = [cli EXCEPT !.created = made,
                             !.step = IF made = "release" THEN "assets" ELSE "postrun"]
    /\ UNCHANGED << options, pc, library >>

\* the assets of the preset's result are uploaded to the release
UploadAssets ==
    /\ cli.step = "assets"
    /\ cli' = [cli EXCEPT !.step = "postrun"]
    /\ UNCHANGED << options, pc, library >>

\* result.postRun, then the action returns
PostRun ==
    /\ cli.step = "postrun"
    /\ cli' = [cli EXCEPT !.step = "end"]
    /\ UNCHANGED << options, pc, library >>

\* any step inside the try block throws: error(error_); process.exit(1)
Catch ==
    /\ cli.step \in Running
    /\ cli' = [cli EXCEPT !.step = "exit1", !.exitCode = 1, !.failedAt = cli.step]
    /\ pc' = IF pc \in {"idle", "rendered"} THEN pc ELSE "aborted"
    /\ UNCHANGED << options, library >>

NextCli ==
    \/ Setup
    \/ CheckPublishPrefix
    \/ CallBump
    \/ Next
    \/ PersistVersion
    \/ RunSharedActions
    \/ CheckNextVersion
    \/ RunMain
    \/ PostAction
    \/ UploadAssets
    \/ PostRun
    \/ Catch

SpecCli == InitCli /\ [][NextCli]_vars

(* ------------------------------------------------------------------ *)
(* Properties                                                         *)
(* ------------------------------------------------------------------ *)

Rules == {"major", "minor", "patch"}

\* the run went through classification (a tag existed) and has returned
Classified == pc = "done" /\ tags # <<>>

\* number of commits of the history that lie above the cutoff
NewerCount ==
    LET cut == CutIndex(history, tags[1].sha)
    IN IF cut > 0 THEN cut - 1 ELSE Len(history)

CurrentVersionParts == IF tags = <<>> THEN manifest ELSE tags[1].name.parts

CurrentMajor == ParseNum(CurrentVersionParts[1])

\* highest severity that has a bucket
BucketMax ==
    IF commitsByRule.major # <<>> THEN "major"
    ELSE IF commitsByRule.minor # <<>> THEN "minor"
    ELSE IF commitsByRule.patch # <<>> THEN "patch"
    ELSE "none"

\* positions of bucket r that hold entry e of commit c
Positions(r, c, e) == { p \in 1..Len(origin[r]) : origin[r][p] = [c |-> c, e |-> e] }

\* all <<rule, position>> that hold an entry of commit c
EntriesOf(c) ==
    UNION { { <<r, p>> : p \in { q \in 1..Len(origin[r]) : origin[r][q].c = c } } : r \in Rules }

IsWord(t) == t.k = "w"

\* the words of a raw line
Words(toks) == SelectSeq(toks, IsWord)

\* description d opens (after its bold scope) with the words of raw line l
OpensWith(d, l) ==
    LET body == IF d # <<>> /\ d[1].k = "bold" THEN Tail(d) ELSE d
        ws == Words(l.toks)
    IN Len(body) >= Len(ws) /\ SubSeq(body, 1, Len(ws)) = ws

\* line i of msg starts an entry
StartsEntry(msg, i) == msg[i].type \in BumpTypes

\* the number, within its message, of the entry that line i starts
EntryNumber(msg, i) == Cardinality({ k \in 1..i : msg[k].type \in BumpTypes })

\* line i starts an entry and a BREAKING line is read while that entry is open
Escalated(msg, i) ==
    /\ StartsEntry(msg, i)
    /\ \E j \in (i + 1)..Len(msg) :
          /\ msg[j].type = "BREAKING"
          /\ \A k \in (i + 1)..(j - 1) : msg[k].type \in {"", "BREAKING"}

SomeEscalated ==
    \E c \in 1..NewerCount : \E i \in 1..Len(history[c].message) : Escalated(history[c].message, i)

\* C1 as stated: the bump is the maximum severity over the entries, lowered
\* only from major to minor when the current major version is 0 (so a feat
\* entry without BREAKING gives minor on every version).
C1_BumpIsMaxSeverity ==
    Classified =>
        bumpType = IF BucketMax = "major" /\ CurrentMajor = 0 THEN "minor" ELSE BucketMax

\* C1 amended: the bump is the maximum severity over the entries when the
\* current major version is >= 1; when it is 0 the bump is one level lower
\* (major -> minor, minor -> patch, patch stays patch).  A feat entry without
\* BREAKING gives minor on a stable version and patch on an unstable one.
C1_BumpOneLevelLowerWhenUnstable ==
    Classified =>
        /\ CurrentMajor >= 1 => bumpType = BucketMax
        /\ CurrentMajor = 0 =>
              bumpType = CASE BucketMax = "major" -> "minor"
                           [] BucketMax = "minor" -> "patch"
                           [] BucketMax = "patch" -> "patch"
                           [] OTHER -> "none"

C1_Witness ==
    /\ Classified
    /\ CurrentMajor = 0
    /\ commitsByRule.major = <<>>
    /\ commitsByRule.minor # <<>>
    /\ bumpType = "patch"

\* C2: when an entry above the cutoff carries a BREAKING marker the bump is
\* major on a stable version and minor on an unstable one, and that entry is
\* listed in the major bucket and in no other bucket.
C2_BreakingGivesMajor ==
    Classified =>
        \A c \in 1..NewerCount : \A i \in 1..Len(history[c].message) :
            LET msg == history[c].message
                e == EntryNumber(msg, i)
            IN Escalated(msg, i) =>
                /\ bumpType = IF CurrentMajor >= 1 THEN "major" ELSE "minor"
                /\ Cardinality(Positions("major", c, e)) = 1
                /\ \A p \in Positions("major", c, e) : OpensWith(commitsByRule.major[p], msg[i])
                /\ Positions("minor", c, e) = {}
                /\ Positions("patch", c, e) = {}

C2_Witness ==
    /\ Classified
    /\ SomeEscalated
    /\ CurrentMajor = 0
    /\ bumpType = "minor"
    /\ commitsByRule.major # <<>>

RECURSIVE SeverityOver(_, _)
\* highest severity among the entries of the first n commits of all
SeverityOver(all, n) ==
    IF n = 0 THEN "none"
    ELSE LET es == ParseMessage(all[n].message)
             sevs == { es[j].severity : j \in 1..Len(es) }
             top == IF "major" \in sevs THEN "major" ELSE IF "minor" \in sevs THEN "minor"
                    ELSE IF "patch" \in sevs THEN "patch" ELSE "none"
         IN MaxSeverity(SeverityOver(all, n - 1), top)

\* C3: the commit whose identifier is the latest tag's and every commit after
\* it in the list contribute no entry and do not influence the bump; every
\* commit before it is classified.
C3_Cutoff ==
    Classified =>
        /\ commits = SubSeq(history, 1, NewerCount)
        /\ \A r \in Rules : \A p \in 1..Len(origin[r]) : origin[r][p].c <= NewerCount
        /\ \A r \in Rules : Len(origin[r]) = Len(commitsByRule[r])
        /\ \A c \in 1..NewerCount :
              Cardinality(EntriesOf(c)) = Len(ParseMessage(history[c].message))
        /\ rawBump = SeverityOver(history, NewerCount)
        /\ BucketMax = rawBump

C3_Witness ==
    /\ Classified
    /\ NewerCount >= 1
    /\ NewerCount + 2 <= Len(history)
    /\ commitsByRule.patch # <<>>
    /\ commitsByRule.minor = <<>>

VersionOf(parts) == ParseVersion(parts)

\* semver precedence of two versions
SemverGreater(a, b) ==
    \/ a.major > b.major
    \/ a.major = b.major /\ a.minor > b.minor
    \/ a.major = b.major /\ a.minor = b.minor /\ a.patch > b.patch

\* decimal text without leading zero
Canonical(ds) ==
    /\ Len(ds) >= 1
    /\ \A i \in 1..Len(ds) : ds[i] \in 0..9
    /\ Len(ds) > 1 => ds[1] # 0

C5_InitialRelease ==
    (pc = "done" /\ tags = <<>>) =>
        /\ bumpType = "none"
        /\ commitsByRule = [major |-> <<>>, minor |-> <<>>, patch |-> <<>>,
                            rawOverride |-> InitialReleaseNote]
        /\ nextVersion # Undefined
        /\ \A i \in 1..3 : Canonical(nextVersion[i])
        /\ VersionOf(nextVersion) = [VersionOf(manifest) EXCEPT !.patch = @ + 1]
        /\ ~usingInExistingEnv

C5_Witness ==
    /\ pc = "done"
    /\ tags = <<>>
    /\ \E i \in 1..Len(history) : history[i].message = MsgPrefixed
    /\ manifest = V(<<0>>, <<0>>, <<0>>)
    /\ nextVersion = V(<<0>>, <<0>>, <<1>>)

\* no line of a commit above the cutoff is a feat or fix line or a BREAKING marker
NothingQualifies ==
    \A c \in 1..NewerCount : \A i \in 1..Len(history[c].message) :
        history[c].message[i].type \notin (BumpTypes \cup {"BREAKING"})

\* C6: with a prior tag and no feat or fix line and no BREAKING marker above
\* the cutoff, the result is bumpType none, commitsByRule empty and no
\* nextVersion; the other lines are dropped.
C6_NoQualifyingCommits ==
    (Classified /\ NothingQualifies) =>
        /\ bumpType = "none"
        /\ commitsByRule = NoBuckets
        /\ nextVersion = Undefined

C6_Witness ==
    /\ Classified
    /\ NothingQualifies
    /\ NewerCount >= 2
    /\ \E c \in 1..NewerCount : history[c].message = MsgNoPrefix
    /\ \E c \in 1..NewerCount : history[c].message = MsgChore

\* C7: in every result nextVersion is undefined exactly when bumpType is none
\* and the initial-release override did not fire, and the rawOverride bucket
\* never comes with a major, minor or patch bucket.
C7_NextVersionIffBump ==
    pc = "done" =>
        /\ (nextVersion = Undefined) <=> (bumpType = "none" /\ commitsByRule.rawOverride = "")
        /\ commitsByRule.rawOverride # "" => \A r \in Rules : commitsByRule[r] = <<>>

C7_Witness ==
    /\ Classified
    /\ commitsByRule.patch # <<>>
    /\ bumpType = "patch"
    /\ nextVersion # Undefined
    /\ commitsByRule.rawOverride = ""

TotalEntries == Len(commitsByRule.major) + Len(commitsByRule.minor) + Len(commitsByRule.patch)

RECURSIVE EntriesOver(_, _)
\* number of entries in the first n commits of all
EntriesOver(all, n) ==
    IF n = 0 THEN 0 ELSE EntriesOver(all, n - 1) + Len(ParseMessage(all[n].message))

\* C8: when the commits above the cutoff span more than one page, every one
\* of them on every page is classified; the entries are not capped at a page.
C8_AllPagesClassified ==
    (Classified /\ NewerCount > PerPage) =>
        /\ Len(requested) >= 2
        /\ Len(commits) = NewerCount
        /\ idx = NewerCount + 1
        /\ \A c \in 1..NewerCount :
              Cardinality(EntriesOf(c)) = Len(ParseMessage(history[c].message))
        /\ TotalEntries = EntriesOver(history, NewerCount)

C8_Witness ==
    /\ Classified
    /\ NewerCount > 2 * PerPage
    /\ Len(requested) >= 3
    /\ TotalEntries > 2 * PerPage
    /\ commitsByRule.minor # <<>>
    /\ commitsByRule.patch # <<>>

IsLink(t) == t.k = "sha7"

\* number of commit links on a description
LinkCount(d) == Len(SelectSeq(d, IsLink))

Description(x) == commitsByRule[x[1]][x[2]]

\* the entries of commit c whose description carries a link
Linked(c) == { x \in EntriesOf(c) : LinkCount(Description(x)) >= 1 }

\* every link on d is well formed for sha: the first 7 characters, then the
\* commit url with the full sha
LinksTo(d, sha) ==
    \A i \in 1..Len(d) :
        d[i].k = "sha7" =>
            /\ d[i].s = SubSeq(sha, 1, 7)
            /\ i < Len(d)
            /\ d[i + 1] = [k |-> "url", n |-> 0, s |-> <<RepoUrl, "/commit/">> \o sha]

IsIssue(t) == t.k = "issue"

\* C9 as stated: for a commit above the cutoff with a non-empty identifier and
\* at least one entry, the commit link occurs exactly once among all the
\* descriptions of the commit, on the first entry's; descriptions of a commit
\* with an empty identifier carry no link.
C9_LinkOncePerCommit ==
    Classified =>
        \A c \in 1..NewerCount :
            /\ (history[c].sha # <<>> /\ EntriesOf(c) # {}) =>
                  /\ Cardinality(Linked(c)) = 1
                  /\ \A x \in Linked(c) :
                        LinkCount(Description(x)) = 1 /\ origin[x[1]][x[2]].e = 1
            /\ history[c].sha = <<>> => Linked(c) = {}

\* C9 amended: for a commit above the cutoff with a non-empty identifier the
\* commit link (short sha of 7 characters linking to <repo-url>/commit/<full
\* sha>) occurs exactly once on the description of every entry of the commit
\* that references no issue - on each such entry, not only on the first -
\* and never more than once on a description; descriptions of a commit with
\* an empty identifier carry no link.
C9_LinkOnEveryEntryWithoutIssue ==
    Classified =>
        \A c \in 1..NewerCount :
            /\ history[c].sha # <<>> =>
                  \A x \in EntriesOf(c) :
                      /\ LinkCount(Description(x)) <= 1
                      /\ LinksTo(Description(x), history[c].sha)
                      /\ SelectSeq(Description(x), IsIssue) = <<>> =>
                            LinkCount(Description(x)) = 1
            /\ history[c].sha = <<>> => Linked(c) = {}

\* two entries of one commit both carry the link
C9_Witness ==
    /\ Classified
    /\ \E c \in 1..NewerCount :
          /\ history[c].sha # <<>>
          /\ Cardinality(Linked(c)) >= 2

\* the issue numbers a raw line mentions, in order
Mentioned(toks) ==
    LET refs == SelectSeq(toks, IsRef)
    IN [q \in 1..Len(refs) |-> refs[q].n]

RECURSIVE MentionedIn(_, _, _)
\* the issue numbers lines i..j of msg mention, in order
MentionedIn(msg, i, j) ==
    IF i > j THEN <<>> ELSE Mentioned(msg[i].toks) \o MentionedIn(msg, i + 1, j)

RECURSIVE FirstsFrom(_, _)
\* the elements of seq from position q on that do not occur before their position
FirstsFrom(seq, q) ==
    IF q > Len(seq) THEN <<>>
    ELSE (IF \E h \in 1..(q - 1) : seq[h] = seq[q] THEN <<>> ELSE <<seq[q]>>)
         \o FirstsFrom(seq, q + 1)

\* the line that starts entry e of msg
StartLine(msg, e) == CHOOSE i \in 1..Len(msg) : StartsEntry(msg, i) /\ EntryNumber(msg, i) = e

\* the last line of the entry that line i starts
LastLine(msg, i) ==
    CHOOSE j \in i..Len(msg) :
        /\ \A k \in (i + 1)..j : msg[k].type \in {"", "BREAKING"}
        /\ j < Len(msg) => msg[j + 1].type \notin {"", "BREAKING"}

\* the issue numbers of entry e of msg, each once, in order of first occurrence
ExpectedIssues(msg, e) ==
    FirstsFrom(MentionedIn(msg, StartLine(msg, e), LastLine(msg, StartLine(msg, e))), 1)

\* C10: the issue references of an entry - "(#N)", "closes #N", "fixes #N" on
\* any of its lines - are removed from the visible description and rendered
\* as one annotation at the very end of the description, each referenced
\* number exactly once, in order of first occurrence.
C10_IssuesAnnotatedOnce ==
    Classified =>
        \A r \in Rules : \A p \in 1..Len(commitsByRule[r]) :
            LET d == commitsByRule[r][p]
                want == ExpectedIssues(history[origin[r][p].c].message, origin[r][p].e)
                at == Len(d) - Len(want)
            IN /\ \A i \in 1..Len(d) : ~IsRef(d[i])
               /\ at >= 0
               /\ \A i \in 1..Len(d) : IsIssue(d[i]) <=> i > at
               /\ \A q \in 1..Len(want) : d[at + q].n = want[q]

\* an entry mentioning #5, #7, #5, #7 is annotated (#5, #7)
C10_Witness ==
    /\ Classified
    /\ \E r \in Rules : \E p \in 1..Len(commitsByRule[r]) :
          LET d == commitsByRule[r][p]
          IN /\ history[origin[r][p].c].message = MsgRepeatedRefs
             /\ Len(d) >= 2
             /\ d[Len(d) - 1] = IssueTok(5)
             /\ d[Len(d)] = IssueTok(7)
             /\ Len(SelectSeq(d, IsIssue)) = 2

IsHeading(t) == t.k = "heading"

\* the texts of the headings of a changelog, in order
HeadingNames(log) ==
    LET hs == SelectSeq(log, IsHeading)
    IN [i \in 1..Len(hs) |-> hs[i].s[1]]

\* the headings of the buckets that are present, breaking changes first
ExpectedHeadings ==
    (IF commitsByRule.major # <<>> THEN <<"BREAKING CHANGES">> ELSE <<>>)
    \o (IF commitsByRule.minor # <<>> THEN <<"New Features">> ELSE <<>>)
    \o (IF commitsByRule.patch # <<>> THEN <<"Bug Fixes">> ELSE <<>>)

HeadingText(r) ==
    CASE r = "major" -> "BREAKING CHANGES" [] r = "minor" -> "New Features" [] OTHER -> "Bug Fixes"

\* the text of the list item whose marker is at position i: up to the line
\* break in front of the next marker or heading, or to the end
DescriptionAt(log, i) ==
    LET marks == { j \in (i + 1)..Len(log) : log[j].k \in {"item", "heading"} }
    IN IF marks = {} THEN SubSeq(log, i + 1, Len(log))
       ELSE SubSeq(log, i + 1, (CHOOSE j \in marks : \A h \in marks : j <= h) - 2)

RECURSIVE ItemsFrom(_, _)
\* the list items from position i up to the next heading
ItemsFrom(log, i) ==
    IF i > Len(log) \/ log[i].k = "heading" THEN <<>>
    ELSE (IF log[i].k = "item" THEN <<DescriptionAt(log, i)>> ELSE <<>>) \o ItemsFrom(log, i + 1)

\* the list items under the heading with this text
SectionItems(log, text) ==
    ItemsFrom(log, (CHOOSE i \in 1..Len(log) : IsHeading(log[i]) /\ log[i].s[1] = text) + 1)

\* entry a was discovered before entry b
Earlier(a, b) == a.c < b.c \/ (a.c = b.c /\ a.e < b.e)

\* C11: without rawOverride generateChangelog emits the sections in the order
\* breaking changes, new features, bug fixes; a heading is there exactly when
\* its bucket is present; within a section the entries are in the order of
\* their discovery (newest commit first, extraction order within a commit).
C11_SectionsInFixedOrder ==
    (pc = "rendered" /\ commitsByRule.rawOverride = "") =>
        /\ HeadingNames(changelog) = ExpectedHeadings
        /\ \A r \in Rules :
              /\ commitsByRule[r] # <<>> =>
                    SectionItems(changelog, HeadingText(r)) = commitsByRule[r]
              /\ \A p, q \in 1..Len(origin[r]) : p < q => Earlier(origin[r][p], origin[r][q])

\* all three sections, the first one with entries of two commits
C11_Witness ==
    /\ pc = "rendered"
    /\ HeadingNames(changelog) = <<"BREAKING CHANGES", "New Features", "Bug Fixes">>
    /\ Len(commitsByRule.major) = 2
    /\ origin.major[1].c = 1
    /\ origin.major[2].c = 2
    /\ origin.patch[1] = [c |-> 1, e |-> 1]

\* the bucket of the entry that line i of msg starts
BucketOf(msg, i) ==
    IF Escalated(msg, i) THEN "major"
    ELSE IF msg[i].type = "feat" THEN "minor" ELSE "patch"

\* C12: a BREAKING line escalates to major exactly the entry that is open
\* when it is read (begun by the latest entry-start line of the same
\* message); entries closed before it or started after it keep the severity
\* of their type, nothing is carried from one message to the next, and every
\* entry is in exactly one bucket.
C12_BreakingEscalatesOpenEntryOnly ==
    Classified =>
        \A c \in 1..NewerCount :
            LET msg == history[c].message
                starts == { i \in 1..Len(msg) : StartsEntry(msg, i) }
            IN /\ Cardinality(EntriesOf(c)) = Cardinality(starts)
               /\ \A i \in starts :
                     /\ Cardinality(Positions(BucketOf(msg, i), c, EntryNumber(msg, i))) = 1
                     /\ \A r \in Rules \ {BucketOf(msg, i)} :
                           Positions(r, c, EntryNumber(msg, i)) = {}

\* feat / BREAKING / feat, then a message that opens with BREAKING: the
\* first feat alone is major
C12_Witness ==
    /\ Classified
    /\ NewerCount = 2
    /\ history[1].message = MsgBreakingThenFeat
    /\ history[2].message = MsgBreakingAlone
    /\ Len(commitsByRule.major) = 1
    /\ Len(commitsByRule.minor) = 1
    /\ commitsByRule.patch = <<>>
    /\ origin.major[1] = [c |-> 1, e |-> 1]
    /\ origin.minor[1] = [c |-> 1, e |-> 2]

\* page p ends the loop: it holds the cutoff or is shorter than a full page
Stops(p) ==
    \/ CutIndex(PageOf(history, p), tags[1].sha) > 0
    \/ Len(PageOf(history, p)) < PerPage

\* the fetching loop is running
Fetching == pc \in {"fetch", "await"}

\* C13: the pages are requested one at a time in increasing order 1, 2, ...,
\* each request only after the previous page was received; no page is
\* requested after the first page that holds the cutoff or is shorter than
\* the page size, the loop ends on exactly that page, and it ends for every
\* finite history.
C13_PagesOneAtATimeAndStops ==
    /\ [](/\ \A i \in 1..Len(requested) : requested[i] = i
          /\ received \in {Len(requested), Len(requested) - 1}
          /\ received >= 0
          /\ (pc = "await") <=> (received = Len(requested) - 1)
          /\ tags # <<>> => \A p \in 1..received : Stops(p) => Len(requested) <= p
          /\ (tags # <<>> /\ pc \notin {"tags", "fetch", "await"}) =>
                /\ Len(requested) >= 1
                /\ Stops(Len(requested)))
    /\ [][requested' # requested =>
             /\ received = Len(requested)
             /\ requested' = Append(requested, Len(requested) + 1)]_vars
    /\ <>(~Fetching /\ pc # "tags")

\* three pages were requested and received, the third holds the cutoff, and
\* the history has a fourth page that is never asked for
C13_Witness ==
    /\ pc = "classify"
    /\ requested = <<1, 2, 3>>
    /\ received = 3
    /\ found
    /\ Len(history) > 3 * PerPage

\* C14: when bumping is enabled, a release or tag ref exists only if the
\* classification returned a next version, doPublish is still true (with a
\* configured publish prefix: the triggering commit's message starts with
\* it) and the preset's main step has returned; a run that threw before the
\* post-action has exit code 1 and created nothing.
C14_PublishGated ==
    /\ (cli.bump /\ cli.created # "none") =>
          /\ VersionBumpInfo
          /\ nextVersion # Undefined
          /\ cli.doPublish
          /\ options.commitPublishPrefix => options.prefixed
          /\ cli.mainReturned
          /\ cli.step \notin BeforeCreation
    /\ cli.step = "exit1" =>
          /\ cli.exitCode = 1
          /\ cli.failedAt \in BeforeCreation \cup {"postaction"} => cli.created = "none"
    /\ cli.exitCode = 1 => cli.step = "exit1"

\* a run with a configured prefix on a prefixed commit that ended with a
\* release of a new version
C14_Witness ==
    /\ cli.step = "end"
    /\ cli.exitCode = 0
    /\ cli.bump
    /\ cli.created = "release"
    /\ options.commitPublishPrefix
    /\ options.prefixed
    /\ cli.mainReturned
    /\ nextVersion # Undefined
    /\ tags # <<>>

====
